---- MODULE Spec2Model ----
(***************************************************************************)
(* Trip-planning workflow orchestrator of trip-ai.                         *)
(*                                                                         *)
(* One run of executeTripPlanner over the parallel graph                   *)
(*   validate_input -> {geocode_locations, discover_pois,                  *)
(*                      search_accommodation}                              *)
(*   geocode_locations -> determine_transportation_mode | END              *)
(* with the channel reducers of TripPlannerStateAnnotation, the step       *)
(* functions of lib/nodes and the timeout race of executeTripPlanner       *)
(* (Spec, FairSpec); the plan_routes step and the label helpers run on     *)
(* their own (StepSpec); the endpoints of the saved trips (TripsSpec).     *)
(*                                                                         *)
(* Optional values (undefined in the source) are sequences of length 0 or  *)
(* 1: None is undefined, Some(v) a defined value.  Instants are counted in *)
(* ticks, TicksPerDay ticks to the day (the source counts milliseconds).   *)
(***************************************************************************)
EXTENDS Integers, Sequences, FiniteSets, TLC

None == <<>>
Some(v) == <<v>>
IsSome(o) == Len(o) = 1
Val(o) == o[1]

(* ------------------------------ bounds -------------------------------- *)

\* resolution of an instant: ticks per day
TicksPerDay == 2
\* the instant at which the run is made (new Date())
NowTick == 1
\* longest point-of-interest list the discovery collaborator answers with
MaxPois == 2
\* longest listing list the lodging collaborator answers with
MaxListings == 11
\* longest point-of-interest list the plan_routes step is run with
MaxRoutePois == 4
\* longest trip, in days, the plan_routes step is run with
MaxRouteDays == 3
\* largest argument of formatDuration
MaxSeconds == 7300
\* largest argument of formatDistance
MaxMeters == 1600
\* number of trip ids the trips table draws from
MaxTrips == 2

\* the callers of one MCP client module, the initializations it starts
MaxCallers == 2
MaxAttempts == 2

(* --------------------------- program constants ------------------------ *)

MaxDestinationLength == 255
MaxBudgetUsd == 1000000
MaxTripDays == 365
TopListings == 10
YearsAhead == 2
DaysPerYear == 365

(* ------------------------------- inputs ------------------------------- *)

\* a string, kept as its text, its length and whether trim() leaves nothing
Str(text, len, blank) == [text |-> text, len |-> len, blank |-> blank]

Destinations ==
  { Str("", 0, TRUE), Str("   ", 3, TRUE), Str("Paris, France", 13, FALSE),
    Str("long", MaxDestinationLength + 1, FALSE) }

Origins == { None, Some(Str("  ", 2, TRUE)), Some(Str("Rome", 4, FALSE)) }

\* now.setHours(0, 0, 0, 0)
Today == NowTick - (NowTick % TicksPerDay)

\* maxDate.setFullYear(maxDate.getFullYear() + 2)
MaxDate == NowTick + YearsAhead * DaysPerYear * TicksPerDay

StartDates ==
  { None, Some(Today - 1), Some(Today), Some(MaxDate), Some(MaxDate + 1) }

\* endDate - startDate, in ticks
TripLengths ==
  { 0 - 1, 0, 1, 10 * TicksPerDay - 1,
    MaxTripDays * TicksPerDay, MaxTripDays * TicksPerDay + 1 }

\* the end dates tried with a start date
EndDatesFor(startDate) ==
  { None } \cup (IF IsSome(startDate)
                   THEN { Some(Val(startDate) + l) : l \in TripLengths }
                   ELSE { Some(Today + TicksPerDay) })

Budgets == { 0 - 5, 0, 1000, MaxBudgetUsd + 1 }

Timeouts == { None, Some(50) }

(* --------------------------- input validation ------------------------- *)

\* Math.floor in place of Math.ceil
Ceil_Floor(a, b) == a \div b

\* Math.ceil(a / b) for b > 0
Ceil(a, b) == 0 - ((0 - a) \div b)

\* Math.ceil((endDate.getTime() - startDate.getTime()) / (1000*60*60*24))
daysBetween(startDate, endDate) == Ceil(Val(endDate) - Val(startDate), TicksPerDay)

destinationErrors(s) ==
  IF s.destination.len = 0 \/ s.destination.blank
    THEN << "Destination is required" >>
    ELSE IF s.destination.len > MaxDestinationLength
      THEN << "Destination must be 255 characters or less" >>
      ELSE << >>

datePresenceErrors(s) ==
  (IF ~IsSome(s.startDate) THEN << "Start date is required" >> ELSE << >>)
  \o (IF ~IsSome(s.endDate) THEN << "End date is required" >> ELSE << >>)

dateRangeErrors(s) ==
  IF IsSome(s.startDate) /\ IsSome(s.endDate)
    THEN (IF Val(s.startDate) > Val(s.endDate)
            THEN << "Start date must be before end date" >> ELSE << >>)
      \o (IF Val(s.startDate) < Today
            THEN << "Start date must be in the future" >> ELSE << >>)
      \o (IF Val(s.startDate) > MaxDate
            THEN << "Start date must be within 2 years" >> ELSE << >>)
    ELSE << >>

budgetErrors(s) ==
  IF s.budgetUsd = 0 \/ s.budgetUsd <= 0
    THEN << "Budget must be greater than 0" >>
    ELSE IF s.budgetUsd > MaxBudgetUsd
      THEN << "Budget must be less than $1,000,000" >>
      ELSE << >>

\* let daysCount = 1; recomputed when both dates are present
computedDaysCount(s) ==
  IF IsSome(s.startDate) /\ IsSome(s.endDate)
    THEN daysBetween(s.startDate, s.endDate)
    ELSE 1

daysCountErrors(s) ==
  IF IsSome(s.startDate) /\ IsSome(s.endDate)
    THEN (IF computedDaysCount(s) < 1
            THEN << "Trip must be at least 1 day" >> ELSE << >>)
      \o (IF computedDaysCount(s) > MaxTripDays
            THEN << "Trip must be less than 365 days" >> ELSE << >>)
    ELSE << >>

\* the local array errors of validateInput, in the order it is filled
validateInputErrors(s) ==
  destinationErrors(s) \o datePresenceErrors(s) \o dateRangeErrors(s)
    \o budgetErrors(s) \o daysCountErrors(s)

(* ------------------------------ values -------------------------------- *)

\* an Error object: its name, its message and the timeout field (TimeoutError only)
Err(name, message, ms) == [name |-> name, message |-> message, timeout |-> ms]

NoError == Err("none", << >>, None)

\* errors.join(sep): the entries with the separator between neighbours
Join(errors, sep) ==
  [i \in 1..(IF Len(errors) = 0 THEN 0 ELSE 2 * Len(errors) - 1) |->
     IF i % 2 = 1 THEN errors[(i + 1) \div 2] ELSE sep]

\* new ValidationError(`Input validation failed: ${errors.join("; ")}`)
ValidationError(errors) ==
  Err("ValidationError", << "Input validation failed: " >> \o Join(errors, "; "), None)

\* new Error(`Trip planning timeout after ${timeout}ms`)
timeoutRejection(ms) == Err("Error", << "Trip planning timeout after", ms >>, None)

Coordinates(lat, lng) == [lat |-> lat, lng |-> lng]

\* what the geocoding collaborator answers for an address
geocodeOf(str) == IF str.text = "Rome" THEN Coordinates(41, 12) ELSE Coordinates(48, 2)

TransportationModes == { "plane", "train", "bus", "car", "ferry", "combination" }

\* the lists the collaborators answer with: items are numbered in the answer's order
ListOf(n) == [i \in 1..n |-> i]
PoiAnswers == { None } \cup { Some(ListOf(n)) : n \in 0..MaxPois }
ListingAnswers == { None } \cup { Some(ListOf(n)) : n \in {0, 1, MaxListings} }

EmptyRouteData == [totalDistance |-> "", totalDuration |-> "", routes |-> << >>]

GeocodeDestinationFailed == "Failed to geocode destination"
GeocodeOriginFailed == "Failed to geocode origin"
PoiDiscoveryFailed == "POI Discovery failed"
AccommodationFailed == "Accommodation search failed"
TransportationModeFailed == "Transportation mode determination failed"

(* ------------------------- state and its channels --------------------- *)

\* the object executeTripPlanner hands to graph.invoke
initialState(in) ==
  [ destination |-> in.destination,
    origin |-> in.origin,
    startDate |-> in.startDate,
    endDate |-> in.endDate,
    budgetUsd |-> in.budgetUsd,
    daysCount |-> 1,
    destinationCoordinates |-> None,
    originCoordinates |-> None,
    transportationMode |-> None,
    pointsOfInterest |-> << >>,
    dailyItinerary |-> << >>,
    routeInformation |-> EmptyRouteData,
    airbnbRecommendations |-> << >>,
    errors |-> << >> ]

Fields ==
  { "destination", "origin", "startDate", "endDate", "budgetUsd", "daysCount",
    "destinationCoordinates", "originCoordinates", "transportationMode",
    "pointsOfInterest", "dailyItinerary", "routeInformation",
    "airbnbRecommendations", "errors" }

\* reducer: (x, y) => y ?? x
coordinatesReducer(x, y) == IF IsSome(y) THEN y ELSE x

\* reducer: (x, y) => y ?? x ?? []   (a list written by a step is never undefined)
listReducer(x, y) == y

\* a channel that keeps the last value written
errorsReducer_LastValue(x, y) == y

\* reducer: (x, y) => x.concat(y ?? [])
errorsReducer(x, y) == x \o y

\* the reducer of each channel; a channel declared without one keeps the last value written
Reducer(f, x, y) ==
  CASE f \in { "destinationCoordinates", "originCoordinates" } -> coordinatesReducer(x, y)
    [] f \in { "pointsOfInterest", "dailyItinerary", "airbnbRecommendations" } -> listReducer(x, y)
    [] f = "errors" -> errorsReducer(x, y)
    [] OTHER -> y

\* what a step returns: the keys of the returned object and their values
FullUpdate(s) == [keys |-> Fields, vals |-> s]
PartialUpdate(keys, s) == [keys |-> keys, vals |-> s]
Blank == initialState([destination |-> Str("", 0, TRUE), origin |-> None,
                       startDate |-> None, endDate |-> None, budgetUsd |-> 0])
EmptyUpdate == PartialUpdate({}, Blank)

\* the channels after the writes of one step are applied
ApplyUpdate(st, u) ==
  [f \in Fields |-> IF f \in u.keys THEN Reducer(f, st[f], u.vals[f]) ELSE st[f]]

Return(u) == [throws |-> FALSE, error |-> NoError, update |-> u]
Throw(e) == [throws |-> TRUE, error |-> e, update |-> EmptyUpdate]

(* ------------------------------ the steps ----------------------------- *)

\* the errors are collected and never thrown
validateInput_NoThrow(s) ==
  Return(FullUpdate([s EXCEPT !.daysCount = computedDaysCount(s)]))

validateInput(s) ==
  IF Len(validateInputErrors(s)) > 0
    THEN Throw(ValidationError(validateInputErrors(s)))
    ELSE Return(FullUpdate([s EXCEPT !.daysCount = computedDaysCount(s)]))

\* state.origin && state.origin.trim() !== ""
originSupplied(s) == IsSome(s.origin) /\ ~Val(s.origin).blank

\* d, o: the answers of geocodeAddress for destination and origin, None when it throws;
\* o is read only when the destination was geocoded and an origin is supplied
geocodeLocations(s, d, o) ==
  IF ~IsSome(d)
    THEN Return(FullUpdate([s EXCEPT !.errors = Append(@, GeocodeDestinationFailed)]))
    ELSE IF originSupplied(s) /\ ~IsSome(o)
      THEN Return(FullUpdate([s EXCEPT !.destinationCoordinates = d,
                                       !.errors = Append(@, GeocodeOriginFailed)]))
      ELSE IF originSupplied(s)
        THEN Return(FullUpdate([s EXCEPT !.destinationCoordinates = d,
                                         !.originCoordinates = o]))
        ELSE Return(FullUpdate([s EXCEPT !.destinationCoordinates = d]))

\* pois: the answer of discoverPointsOfInterest, None when it throws
discoverInterestPoints(s, pois) ==
  IF ~IsSome(pois) \/ Len(Val(pois)) = 0
    THEN Return(PartialUpdate({"errors"}, [Blank EXCEPT !.errors = << PoiDiscoveryFailed >>]))
    ELSE Return(PartialUpdate({"pointsOfInterest"}, [Blank EXCEPT !.pointsOfInterest = Val(pois)]))

Min(a, b) == IF a < b THEN a ELSE b

\* date.toISOString().split("T")[0]: the day an instant falls on
DateOf(tick) == tick \div TicksPerDay

\* Infinity, -Infinity or NaN
NotFinite == "not finite"

\* Math.ceil in place of Math.floor
pricePerNight_Ceil(budget, numNights) == Ceil(budget, numNights)

\* const pricePerNight = Math.floor(budget / numNights)
pricePerNight(budget, numNights) ==
  IF numNights > 0
    THEN budget \div numNights
    ELSE IF numNights < 0 THEN 0 - Ceil(budget, 0 - numNights) ELSE NotFinite

\* the arguments of the airbnb_search call that searchAccommodation makes
\* through searchAirbnb(destination, checkIn, checkOut, budgetUsd, daysCount)
airbnbSearchArguments(s) ==
  [ location |-> s.destination,
    checkin |-> DateOf(Val(s.startDate)),
    checkout |-> DateOf(Val(s.endDate)),
    maxPrice |-> pricePerNight(s.budgetUsd, s.daysCount),
    minPrice |-> 0 ]

\* the call searchAccommodation makes for s: state.startDate.toISOString()
\* throws on a missing date, inside the try, before searchAirbnb is called
airbnbSearchCall(s) ==
  IF IsSome(s.startDate) /\ IsSome(s.endDate)
    THEN Some(airbnbSearchArguments(s))
    ELSE None

\* found: the listings parsed from the airbnb_search answer, None when the call throws;
\* the result is None when searchAirbnb throws
searchAirbnb(found) ==
  IF ~IsSome(found) \/ Len(Val(found)) = 0
    THEN None
    ELSE Some(SubSeq(Val(found), 1, Min(TopListings, Len(Val(found)))))

\* the step without its try/catch
searchAccommodation_NoCatch(s, found) ==
  IF ~IsSome(searchAirbnb(found))
    THEN Throw(Err("AirbnbMCPError", << "Airbnb search failed" >>, None))
    ELSE Return(FullUpdate([s EXCEPT !.airbnbRecommendations =
           SubSeq(Val(searchAirbnb(found)), 1, Min(TopListings, Len(Val(searchAirbnb(found)))))]))

searchAccommodation(s, found) ==
  IF ~IsSome(searchAirbnb(found))
    THEN Return(FullUpdate([s EXCEPT !.errors = Append(@, AccommodationFailed)]))
    ELSE Return(FullUpdate([s EXCEPT !.airbnbRecommendations =
           SubSeq(Val(searchAirbnb(found)), 1, Min(TopListings, Len(Val(searchAirbnb(found)))))]))

\* !state.originCoordinates || !state.destinationCoordinates: return {} before any call
transportationModeSkips(s) ==
  ~IsSome(s.originCoordinates) \/ ~IsSome(s.destinationCoordinates)

\* mode: the answer of generateObject, None when it throws
determineTransportationMode(s, mode) ==
  IF transportationModeSkips(s)
    THEN Return(EmptyUpdate)
    ELSE IF ~IsSome(mode)
      THEN Return(PartialUpdate({"errors"}, [Blank EXCEPT !.errors = << TransportationModeFailed >>]))
      ELSE Return(PartialUpdate({"transportationMode"}, [Blank EXCEPT !.transportationMode = mode]))

\* an unconditional edge to determine_transportation_mode
routeAfterGeocoding_Always(s) == "determine_transportation_mode"

\* the conditional edge after geocode_locations
routeAfterGeocoding(s) ==
  IF IsSome(s.originCoordinates) /\ IsSome(s.destinationCoordinates)
    THEN "determine_transportation_mode"
    ELSE "END"

(* ------------------------- labels and route planning ------------------ *)

\* a formatted label: its wording and the one or two numbers printed in it
\*   "a seconds", "a minutes", "a hour", "a hours", "ah bm", "a m", "a.b km"
Text(form, a, b) == [form |-> form, a |-> a, b |-> b]

\* Math.round(a / b) for a >= 0, b > 0: halves go up
Round(a, b) == (2 * a + b) \div (2 * b)

\* the metres m at which m / 1000 lies halfway between two tenths while the
\* double m / 1000 lies below the halfway point: toFixed(1) prints the lower
\* tenth there (1.15 and 1.45 are doubles below 1.15 and 1.45)
halfwayDoublesBelow == { 1150, 1450 }

\* (meters / 1000).toFixed(1), in tenths of a kilometre
toFixed1(meters) ==
  IF meters \in halfwayDoublesBelow THEN meters \div 100 ELSE Round(meters, 100)

formatDistance(meters) ==
  IF meters < 1000
    THEN Text("m", Round(meters, 1), 0)
    ELSE Text("km", toFixed1(meters) \div 10, toFixed1(meters) % 10)

\* Math.floor in place of Math.round
formatDuration_Floor(seconds) ==
  IF seconds < 60
    THEN Text("seconds", seconds, 0)
    ELSE IF seconds < 3600
      THEN Text("minutes", seconds \div 60, 0)
      ELSE LET hours == seconds \div 3600
               minutes == (seconds % 3600) \div 60
           IN IF minutes = 0
                THEN Text(IF hours > 1 THEN "hours" ELSE "hour", hours, 0)
                ELSE Text("h m", hours, minutes)

formatDuration(seconds) ==
  IF seconds < 60
    THEN Text("seconds", Round(seconds, 1), 0)
    ELSE IF seconds < 3600
      THEN Text("minutes", Round(seconds, 60), 0)
      ELSE LET hours == seconds \div 3600
               minutes == Round(seconds % 3600, 60)
           IN IF minutes = 0
                THEN Text(IF hours > 1 THEN "hours" ELSE "hour", hours, 0)
                ELSE Text("h m", hours, minutes)

RoutePlanningFailed == "Route planning failed"

\* Math.ceil(state.pointsOfInterest.length / state.daysCount)
poisPerDay(s) == Ceil(Len(s.pointsOfInterest), s.daysCount)

\* the entry pushed for the POI at index idx (from 0)
scheduledPoi(poi, idx) ==
  [ poi |-> poi,
    timeWindow |-> << 9 + (idx % 5) * 2, 11 + (idx % 5) * 2 >>,
    duration |-> 120,
    travelTimeFromPrevious |-> IF idx % 5 = 0 THEN 0 ELSE 30 ]

\* the reduce and map of planRoutes: the POI at index idx goes to the entry
\* of dayIndex = Math.floor(idx / poisPerDay)
dailyItineraryOf(s) ==
  LET n == Len(s.pointsOfInterest)
      days == ((n - 1) \div poisPerDay(s)) + 1
  IN [ k \in 1..days |->
         LET first == (k - 1) * poisPerDay(s)
             count == Min(poisPerDay(s), n - first)
         IN [ day |-> k,
              date |-> DateOf(Val(s.startDate) + (k - 1) * TicksPerDay),
              pois |-> [ j \in 1..count |->
                           scheduledPoi(s.pointsOfInterest[first + j], first + j - 1) ],
              totalDuration |-> Text("hours", count * 2, 0) ] ]

\* routeData: the answer of planDailyRoutes, None when it throws
planRoutes(s, routeData) ==
  IF Len(s.pointsOfInterest) = 0 \/ ~IsSome(routeData)
    THEN Return(FullUpdate([s EXCEPT !.errors = Append(@, RoutePlanningFailed)]))
    ELSE Return(FullUpdate([s EXCEPT !.dailyItinerary = dailyItineraryOf(s),
                                     !.routeInformation = Val(routeData)]))

\* the step that hands the itinerary to generateObject; object: its answer,
\* None when it throws
planRoutesWithLLM(s, object) ==
  IF \/ Len(s.pointsOfInterest) = 0
     \/ s.daysCount <= 0
     \/ ~IsSome(s.startDate) \/ ~IsSome(s.endDate)
     \/ ~IsSome(object)
    THEN Return(PartialUpdate({"errors"}, [Blank EXCEPT !.errors = << RoutePlanningFailed >>]))
    ELSE Return(PartialUpdate({"dailyItinerary", "routeInformation"},
           [Blank EXCEPT
              !.dailyItinerary = Val(object),
              !.routeInformation =
                 [ totalDistance |-> "Distance data available in map",
                   totalDuration |-> Text("days", s.daysCount, 0),
                   routes |-> [ i \in 1..Len(Val(object)) |->
                                  [day |-> Val(object)[i].day, legs |-> << >>] ] ]]))

(* ---------------------------- planDailyRoutes ------------------------- *)

\* the points of interest lie on one meridian, poi * 700 metres north of a
\* common origin: the haversine distance of two of them is the difference
metresNorth(poi) == poi * 700

\* calculateDistance(lat1, lng1, lat2, lng2), in metres (R = 6371000)
calculateDistance(start, end) ==
  IF metresNorth(start) < metresNorth(end)
    THEN metresNorth(end) - metresNorth(start)
    ELSE metresNorth(start) - metresNorth(end)

\* what getRoute answers for a leg: None when it throws, else distanceValue in
\* metres and durationValue in seconds
GetRouteAnswers == { None, Some([distanceValue |-> 1200, durationValue |-> 300]) }

\* the test of the loop over the legs of a day with k points of interest:
\*   i <= dayPois.length - 1 (google-maps.ts), i < dayPois.length - 1 (gemini.ts)
legLoopContinues(variant, i, k) ==
  IF variant = "mcp" THEN i <= k - 1 ELSE i < k - 1

NotRouting ==
  [ status |-> "idle", variant |-> "", pois |-> << >>, startDate |-> 0, numDays |-> 0,
    day |-> 0, i |-> 0, legs |-> << >>, routes |-> << >>, dailyItinerary |-> << >>,
    totalDistance |-> 0, totalDuration |-> 0, result |-> None,
    beyond |-> FALSE, failures |-> 0, estimates |-> 0 ]

\* pois.slice(startIdx, endIdx) of the day
dayPoisOf(r, day) ==
  LET poisPerDayOf == Ceil(Len(r.pois), r.numDays)
      startIdx == (day - 1) * poisPerDayOf
      endIdx == Min(day * poisPerDayOf, Len(r.pois))
  IN SubSeq(r.pois, startIdx + 1, endIdx)

\* the leg pushed when getRoute answered
answeredLeg(start, end, a) ==
  [ startLocation |-> start, endLocation |-> end,
    distance |-> Text("km", toFixed1(a.distanceValue) \div 10, toFixed1(a.distanceValue) % 10),
    duration |-> formatDuration(a.durationValue) ]

\* the leg pushed by the catch block
estimatedLeg(start, end) ==
  LET estimatedDist == calculateDistance(start, end)
  IN [ startLocation |-> start, endLocation |-> end,
       distance |-> Text("km", toFixed1(estimatedDist) \div 10, toFixed1(estimatedDist) % 10),
       duration |-> Text("mins", Ceil(estimatedDist, 60), 0) ]

\* the entry of the local dailyItinerary for the day that ends
dayScheduleOf(r) ==
  LET dayPois == dayPoisOf(r, r.day)
  IN [ day |-> r.day,
       date |-> DateOf(r.startDate + (r.day - 1) * TicksPerDay),
       pois |-> [ j \in 1..Len(dayPois) |->
                    [ poi |-> dayPois[j],
                      timeWindow |-> << 9 + (j - 1) * 2, 11 + (j - 1) * 2 >>,
                      duration |-> 120,
                      travelTimeFromPrevious |-> IF j - 1 = 0 THEN 0 ELSE 30 ] ],
       totalDuration |-> Text("hours", Len(r.legs) * 2, 0) ]

\* the end of the body of the loop over the days
dayEnds(r) ==
  [ r EXCEPT !.routes = IF Len(r.legs) > 0
                          THEN Append(@, [day |-> r.day, legs |-> r.legs])
                          ELSE @,
             !.dailyItinerary = Append(@, dayScheduleOf(r)),
             !.day = @ + 1, !.i = 0, !.legs = << >> ]

\* planDailyRoutes runs on from the head of the loop over the legs up to its
\* next await of getRoute, its return or its throw.  In the iteration with
\* i + 1 = dayPois.length, end is undefined: end.lat throws in the try block
\* before getRoute is called and again in the catch block, and the outer
\* catch rethrows it as a GoogleMapsError
RECURSIVE runOn(_)
runOn(r) ==
  IF r.day > r.numDays
    THEN [ r EXCEPT !.status = "returned",
                    !.result = Some([ totalDistance |-> formatDistance(r.totalDistance),
                                      totalDuration |-> formatDuration(r.totalDuration),
                                      routes |-> r.routes ]) ]
    ELSE LET k == Len(dayPoisOf(r, r.day))
         IN IF k = 0
              THEN runOn([ r EXCEPT !.day = @ + 1 ])
              ELSE IF legLoopContinues(r.variant, r.i, k)
                THEN IF r.i + 1 >= k
                       THEN [ r EXCEPT !.status = "threw", !.beyond = TRUE ]
                       ELSE [ r EXCEPT !.status = "awaitRoute" ]
                ELSE runOn(dayEnds(r))

\* the call up to its first await: the REST variant throws when no API key is
\* configured
planDailyRoutesCalled(variant, pois, startDate, endDate, apiKey) ==
  LET r == [ NotRouting EXCEPT !.variant = variant, !.pois = pois,
                               !.startDate = startDate,
                               !.numDays = Ceil(endDate - startDate, TicksPerDay),
                               !.day = 1 ]
  IN IF variant = "rest" /\ ~apiKey THEN [ r EXCEPT !.status = "threw" ] ELSE runOn(r)

\* getRoute settles for the leg from dayPois[i] to dayPois[i + 1]
legSettled(r, answer) ==
  LET dayPois == dayPoisOf(r, r.day)
      start == dayPois[r.i + 1]
      end == dayPois[r.i + 2]
      estimatedDist == calculateDistance(start, end)
  IN runOn(IF IsSome(answer)
             THEN [ r EXCEPT !.legs = Append(@, answeredLeg(start, end, Val(answer))),
                             !.totalDistance = @ + Val(answer).distanceValue,
                             !.totalDuration = @ + Val(answer).durationValue,
                             !.i = @ + 1 ]
             ELSE [ r EXCEPT !.legs = Append(@, estimatedLeg(start, end)),
                             !.totalDistance = @ + estimatedDist * 1000,
                             !.totalDuration = @ + estimatedDist * 60,
                             !.i = @ + 1,
                             !.failures = @ + 1,
                             !.estimates = @ + estimatedDist ])

(* ----------------------------- the MCP clients ------------------------ *)

\* the modules that keep a client: airbnb-mcp.ts, google-maps.ts
ClientModules == { "airbnb", "googleMaps" }

\* the callers of initializeAirbnbClient or initializeGoogleMapsClient
ClientCallers == 1..MaxCallers

NotCalling == [status |-> "idle", promise |-> 0, client |-> 0]

\* the state of a module once it is loaded: airbnbClient or googleMapsClient,
\* initPromise, the promises the initializations made, the clients constructed,
\* where each caller stands, and the clients a close dropped
NotLoaded ==
  [ module |-> "", client |-> None, initPromise |-> None, promises |-> << >>,
    created |-> 0, callers |-> [c \in ClientCallers |-> NotCalling], closed |-> {} ]

\* a caller awaits the promise p
awaits(m, p) ==
  IF m.promises[p].status = "pending"
    THEN [status |-> "awaiting", promise |-> p, client |-> 0]
    ELSE IF m.promises[p].status = "fulfilled"
      THEN [status |-> "received", promise |-> p, client |-> m.promises[p].client]
      ELSE [status |-> "failed", promise |-> p, client |-> 0]

\* the test if (initPromise) always false
pendingInitialization_Ignored(m) == None

\* if (initPromise) return initPromise
pendingInitialization(m) == m.initPromise

\* initializeAirbnbClient, initializeGoogleMapsClient up to the first await.
\* constructed: the transport and the client were constructed and connect was
\* called; otherwise a constructor threw, the catch block ran before the
\* async function returned its rejected promise, and the assignment
\* initPromise = (async () => ...)() stored that promise after the reset
initializeClient(m, caller, constructed) ==
  IF IsSome(m.client)
    THEN [ m EXCEPT !.callers[caller] =
             [status |-> "received", promise |-> 0, client |-> Val(m.client)] ]
    ELSE IF IsSome(pendingInitialization(m))
      THEN [ m EXCEPT !.callers[caller] = awaits(m, Val(pendingInitialization(m))) ]
      ELSE LET p == Len(m.promises) + 1
               started ==
                 IF constructed
                   THEN [ m EXCEPT !.created = @ + 1,
                                   !.promises = Append(@, [status |-> "pending",
                                                           client |-> m.created + 1]) ]
                   ELSE [ m EXCEPT !.promises = Append(@, [status |-> "rejected",
                                                           client |-> 0]) ]
           IN [ started EXCEPT !.initPromise = Some(p),
                               !.callers[caller] = awaits(started, p) ]

\* client.connect of the initialization p settles: airbnbClient = client, or
\* the catch block with initPromise = null; the callers that await p resume
connectSettled(m, p, connected) ==
  LET settled ==
        IF connected
          THEN [ m EXCEPT !.client = Some(m.promises[p].client),
                          !.promises[p].status = "fulfilled" ]
          ELSE [ m EXCEPT !.initPromise = None,
                          !.promises[p].status = "rejected" ]
  IN [ settled EXCEPT !.callers =
         [ c \in ClientCallers |->
             IF m.callers[c].status = "awaiting" /\ m.callers[c].promise = p
               THEN awaits(settled, p)
               ELSE m.callers[c] ] ]

\* closeAirbnbClient clears airbnbClient; closeGoogleMapsClient clears
\* googleMapsClient and initPromise
closeClient(m) ==
  IF IsSome(m.client)
    THEN [ m EXCEPT !.client = None,
                    !.initPromise = IF m.module = "googleMaps" THEN None ELSE @,
                    !.closed = @ \cup { Val(m.client) } ]
    ELSE m

(* --------------------------- the orchestrator ------------------------- *)

VARIABLES
  input,      \* the input of the call
  timeout,    \* the timeout argument of the call, None when it is omitted
  phase,      \* where graph.invoke stands
  state,      \* the channels of the graph
  snapshot,   \* the state the steps of the current superstep were started with
  task,       \* where each step stands
  geoDest,    \* the local updates.destinationCoordinates of geocodeLocations
  writes,     \* what each step returned
  timer,      \* the setTimeout timer
  outcome,    \* the promise executeTripPlanner returned
  calls,      \* how often each collaborator was called
  answers,    \* what each collaborator answered: None before it answers
  request,    \* the arguments of the airbnb_search call, None before the call
  planned,    \* a run of the plan_routes step: its state, its return value, the merge
  label,      \* a call of formatDuration or formatDistance: its argument and its result
  trips,      \* the rows of the trips table
  reply,      \* the last answer of the trips endpoints
  routing,    \* a call of planDailyRoutes: its locals, where it stands, its result
  mcp         \* a module that keeps an MCP client, and its callers

vars == << input, timeout, phase, state, snapshot, task, geoDest, writes, timer,
           outcome, calls, answers, request, planned, label, trips, reply,
           routing, mcp >>

\* what the orchestrator never touches
apart == << planned, label, trips, reply, routing, mcp >>

\* what the steps and endpoints run on their own never touch
orchestrator == << input, timeout, phase, state, snapshot, task, geoDest, writes,
                  timer, outcome, calls, answers, request >>

Nodes == { "geocode_locations", "discover_pois", "search_accommodation",
           "determine_transportation_mode", "plan_routes" }

ParallelNodes == { "geocode_locations", "discover_pois", "search_accommodation" }

Collaborators == { "geocodeDestination", "geocodeOrigin", "discoverPointsOfInterest",
                   "searchAirbnb", "generateTransportationMode" }

Pending == [status |-> "pending", value |-> None, error |-> NoError]
Fulfilled(st) == [status |-> "fulfilled", value |-> Some(st), error |-> NoError]
Rejected(e) == [status |-> "rejected", value |-> None, error |-> e]

\* resolve and reject of a promise: only the first call settles it
Settle(promise, result) == IF promise.status = "pending" THEN result ELSE promise

\* if (timeout)
usesTimeout(t) == IsSome(t) /\ Val(t) # 0

\* the then-callback without clearTimeout
clearTimeout_Missing(t) == t

\* clearTimeout(timeoutId)
clearTimeout(t) == IF t = "armed" THEN "cleared" ELSE t

\* graph.invoke rejects with e: the await of the branch without timeout rethrows
\* it, the then() of the branch with timeout has no rejection handler
invokeRejected(t, promise, e) == IF usesTimeout(t) THEN promise ELSE Rejected(e)

NoInput == [destination |-> Str("", 0, TRUE), origin |-> None, startDate |-> None,
            endDate |-> None, budgetUsd |-> 0]

NoAnswers == [destination |-> None, origin |-> None, pois |-> None,
              listings |-> None, mode |-> None]

Init ==
  /\ input = NoInput
  /\ timeout = None
  /\ phase = "idle"
  /\ state = initialState(NoInput)
  /\ snapshot = initialState(NoInput)
  /\ task = [n \in Nodes |-> "idle"]
  /\ geoDest = None
  /\ writes = [n \in Nodes |-> EmptyUpdate]
  /\ timer = "none"
  /\ outcome = Pending
  /\ calls = [c \in Collaborators |-> 0]
  /\ answers = NoAnswers
  /\ request = None
  /\ planned = None
  /\ label = None
  /\ trips = {}
  /\ routing = NotRouting
  /\ mcp = NotLoaded
  /\ reply = None

\* executeTripPlanner(input, timeout) up to graph.invoke(initialState)
ExecuteTripPlanner(in, t) ==
  /\ phase = "idle"
  /\ input' = in
  /\ timeout' = t
  /\ state' = initialState(in)
  /\ snapshot' = initialState(in)
  /\ timer' = IF usesTimeout(t) THEN "armed" ELSE "none"
  /\ phase' = "validate_input"
  /\ UNCHANGED << task, geoDest, writes, outcome, calls, answers >>
  /\ UNCHANGED << request, apart >>

\* the timer callback: reject(new Error(...))
TimerFires ==
  /\ timer = "armed"
  /\ timer' = "fired"
  /\ outcome' = Settle(outcome, Rejected(timeoutRejection(Val(timeout))))
  /\ UNCHANGED << input, timeout, phase, state, snapshot, task, geoDest, writes,
                  calls, answers >>
  /\ UNCHANGED << request, apart >>

\* the validate_input superstep; a throw rejects graph.invoke; otherwise the
\* three parallel steps start and each runs to its first collaborator call
RunValidateInput ==
  /\ phase = "validate_input"
  /\ LET r == validateInput(state) IN
       IF r.throws
         THEN /\ phase' = "rejected"
              /\ outcome' = invokeRejected(timeout, outcome, r.error)
              /\ UNCHANGED << state, snapshot, task, calls, request >>
         ELSE /\ state' = ApplyUpdate(state, r.update)
              /\ snapshot' = ApplyUpdate(state, r.update)
              /\ task' = [n \in Nodes |-> IF n \in ParallelNodes THEN "running" ELSE "idle"]
              /\ calls' = [calls EXCEPT !["geocodeDestination"] = @ + 1,
                                        !["discoverPointsOfInterest"] = @ + 1,
                                        !["searchAirbnb"] = @ + 1]
              /\ request' = airbnbSearchCall(ApplyUpdate(state, r.update))
              /\ phase' = "parallel"
              /\ UNCHANGED outcome
  /\ UNCHANGED << input, timeout, geoDest, writes, timer, answers, apart >>

\* step n settles with r: its return value is kept for the end of the
\* superstep, a throw rejects graph.invoke
StepSettles(n, r) ==
  IF r.throws
    THEN /\ task' = [task EXCEPT ![n] = "threw"]
         /\ phase' = "rejected"
         /\ outcome' = invokeRejected(timeout, outcome, r.error)
         /\ UNCHANGED writes
    ELSE /\ task' = [task EXCEPT ![n] = "returned"]
         /\ writes' = [writes EXCEPT ![n] = r.update]
         /\ UNCHANGED << phase, outcome >>

\* geocodeAddress(state.destination) settles
GeocodeDestinationResponds(d) ==
  /\ phase = "parallel"
  /\ task["geocode_locations"] = "running"
  /\ answers' = [answers EXCEPT !.destination = Some(d)]
  /\ IF IsSome(d) /\ originSupplied(snapshot)
       THEN /\ geoDest' = d
            /\ task' = [task EXCEPT !["geocode_locations"] = "awaitOrigin"]
            /\ calls' = [calls EXCEPT !["geocodeOrigin"] = @ + 1]
            /\ UNCHANGED << writes, phase, outcome >>
       ELSE /\ StepSettles("geocode_locations", geocodeLocations(snapshot, d, None))
            /\ UNCHANGED << geoDest, calls >>
  /\ UNCHANGED << input, timeout, state, snapshot, timer >>
  /\ UNCHANGED << request, apart >>

\* geocodeAddress(state.origin) settles
GeocodeOriginResponds(o) ==
  /\ phase = "parallel"
  /\ task["geocode_locations"] = "awaitOrigin"
  /\ answers' = [answers EXCEPT !.origin = Some(o)]
  /\ StepSettles("geocode_locations", geocodeLocations(snapshot, geoDest, o))
  /\ UNCHANGED << input, timeout, state, snapshot, geoDest, timer, calls >>
  /\ UNCHANGED << request, apart >>

\* discoverPointsOfInterest settles
DiscoverPoisResponds(pois) ==
  /\ phase = "parallel"
  /\ task["discover_pois"] = "running"
  /\ answers' = [answers EXCEPT !.pois = Some(pois)]
  /\ StepSettles("discover_pois", discoverInterestPoints(snapshot, pois))
  /\ UNCHANGED << input, timeout, state, snapshot, geoDest, timer, calls >>
  /\ UNCHANGED << request, apart >>

\* the airbnb_search call settles
SearchAirbnbResponds(found) ==
  /\ phase = "parallel"
  /\ task["search_accommodation"] = "running"
  /\ answers' = [answers EXCEPT !.listings = Some(found)]
  /\ StepSettles("search_accommodation", searchAccommodation(snapshot, found))
  /\ UNCHANGED << input, timeout, state, snapshot, geoDest, timer, calls >>
  /\ UNCHANGED << request, apart >>

\* the writes of one step of the parallel superstep are applied, once all three
\* have returned; after the last one the conditional edge is followed
ApplyParallelWrites(n) ==
  /\ phase = "parallel"
  /\ n \in ParallelNodes
  /\ \A m \in ParallelNodes : task[m] \in { "returned", "applied" }
  /\ task[n] = "returned"
  /\ LET st == ApplyUpdate(state, writes[n])
         last == \A m \in ParallelNodes \ {n} : task[m] = "applied"
         launch == last /\ routeAfterGeocoding(st) = "determine_transportation_mode"
     IN /\ state' = st
        /\ IF launch
             THEN /\ snapshot' = st
                  /\ phase' = "transportation"
                  /\ IF transportationModeSkips(st)
                       THEN /\ task' = [task EXCEPT ![n] = "applied",
                                          !["determine_transportation_mode"] = "returned"]
                            /\ writes' = [writes EXCEPT !["determine_transportation_mode"] =
                                            determineTransportationMode(st, None).update]
                            /\ UNCHANGED calls
                       ELSE /\ task' = [task EXCEPT ![n] = "applied",
                                          !["determine_transportation_mode"] = "running"]
                            /\ calls' = [calls EXCEPT !["generateTransportationMode"] = @ + 1]
                            /\ UNCHANGED writes
             ELSE /\ task' = [task EXCEPT ![n] = "applied"]
                  /\ phase' = IF last THEN "fulfilled" ELSE phase
                  /\ UNCHANGED << snapshot, writes, calls >>
  /\ UNCHANGED << input, timeout, geoDest, timer, outcome, answers >>
  /\ UNCHANGED << request, apart >>

\* generateObject settles
TransportationModeResponds(mode) ==
  /\ phase = "transportation"
  /\ task["determine_transportation_mode"] = "running"
  /\ answers' = [answers EXCEPT !.mode = Some(mode)]
  /\ StepSettles("determine_transportation_mode", determineTransportationMode(snapshot, mode))
  /\ UNCHANGED << input, timeout, state, snapshot, geoDest, timer, calls >>
  /\ UNCHANGED << request, apart >>

\* the writes of determine_transportation_mode are applied and the graph ends
ApplyTransportationWrites ==
  /\ phase = "transportation"
  /\ task["determine_transportation_mode"] = "returned"
  /\ state' = ApplyUpdate(state, writes["determine_transportation_mode"])
  /\ task' = [task EXCEPT !["determine_transportation_mode"] = "applied"]
  /\ phase' = "fulfilled"
  /\ UNCHANGED << input, timeout, snapshot, geoDest, writes, timer, outcome, calls, answers >>
  /\ UNCHANGED << request, apart >>

\* graph.invoke is fulfilled: the then-callback (clearTimeout, resolve) with a
\* timeout, the return after await without one
GraphInvokeFulfilled ==
  /\ phase = "fulfilled"
  /\ phase' = "done"
  /\ IF usesTimeout(timeout)
       THEN /\ timer' = clearTimeout(timer)
            /\ outcome' = Settle(outcome, Fulfilled(state))
       ELSE /\ outcome' = Fulfilled(state)
            /\ UNCHANGED timer
  /\ UNCHANGED << input, timeout, state, snapshot, task, geoDest, writes, calls, answers >>
  /\ UNCHANGED << request, apart >>

GeocodeAnswers(str) == { None, Some(geocodeOf(str)) }

\* a JSON answer of an endpoint: HTTP status, code field and timeout field
Response(status, code, ms) == [status |-> status, code |-> code, timeout |-> ms]

\* POST /api/plan-trip from the settlement of executeTripPlanner on: the
\* answer for a returned state and the catch clauses for a rejection; no
\* answer while the promise is pending
planTripResponse(o) ==
  IF o.status = "fulfilled"
    THEN IF Len(Val(o.value).errors) > 0
           THEN Some(Response(400, "PLANNING_ERROR", None))
           ELSE Some(Response(200, "", None))
    ELSE IF o.status = "rejected"
      THEN IF o.error.name = "ValidationError"
             THEN Some(Response(400, "VALIDATION_ERROR", None))
             ELSE IF o.error.name = "TimeoutError"
               THEN Some(Response(504, "TIMEOUT_ERROR", o.error.timeout))
               ELSE IF o.error.message = << "Authentication required" >>
                 THEN Some(Response(401, "AUTH_ERROR", None))
                 ELSE Some(Response(500, "INTERNAL_ERROR", None))
      ELSE None

Next ==
  \/ \E d \in Destinations, o \in Origins, sd \in StartDates, b \in Budgets, t \in Timeouts :
       \E ed \in EndDatesFor(sd) :
         ExecuteTripPlanner([destination |-> d, origin |-> o, startDate |-> sd,
                             endDate |-> ed, budgetUsd |-> b], t)
  \/ TimerFires
  \/ RunValidateInput
  \/ \E d \in GeocodeAnswers(snapshot.destination) : GeocodeDestinationResponds(d)
  \/ \E o \in (IF IsSome(snapshot.origin) THEN GeocodeAnswers(Val(snapshot.origin)) ELSE { None }) :
       GeocodeOriginResponds(o)
  \/ \E pois \in PoiAnswers : DiscoverPoisResponds(pois)
  \/ \E found \in ListingAnswers : SearchAirbnbResponds(found)
  \/ \E n \in ParallelNodes : ApplyParallelWrites(n)
  \/ \E mode \in { None } \cup { Some(m) : m \in TransportationModes } :
       TransportationModeResponds(mode)
  \/ ApplyTransportationWrites
  \/ GraphInvokeFulfilled

Spec == Init /\ [][Next]_vars

\* the event loop runs every ready callback and the graph runtime every step it
\* can take by itself; no collaborator is obliged to answer
FairSpec ==
  /\ Spec
  /\ WF_vars(TimerFires)
  /\ WF_vars(RunValidateInput)
  /\ WF_vars(\E n \in ParallelNodes : ApplyParallelWrites(n))
  /\ WF_vars(ApplyTransportationWrites)
  /\ WF_vars(GraphInvokeFulfilled)

(* -------------------- steps and helpers run on their own -------------- *)

\* the state validate_input and discover_pois leave for plan_routes: n points
\* of interest, a trip of d days from startDate on
planningState(n, d, startDate) ==
  [ initialState([destination |-> Str("Paris, France", 13, FALSE), origin |-> None,
                  startDate |-> Some(startDate),
                  endDate |-> Some(startDate + d * TicksPerDay),
                  budgetUsd |-> 1000])
      EXCEPT !.daysCount = d,
             !.pointsOfInterest = ListOf(n),
             !.errors = IF n = 0 THEN << PoiDiscoveryFailed >> ELSE << >> ]

PlanningStates ==
  { planningState(n, d, sd) :
      n \in 0..MaxRoutePois, d \in 1..MaxRouteDays, sd \in { Today, Today + 1 } }

\* what planDailyRoutes answers: None when it throws, else the totals and legs
RouteDataAnswers ==
  { None,
    Some([ totalDistance |-> formatDistance(0), totalDuration |-> formatDuration(0),
           routes |-> << >> ]) }

\* what generateObject answers with: None when it throws, else an itinerary
ItineraryAnswers(s) ==
  { None, Some(<< >>),
    Some(<< [ day |-> 1, date |-> DateOf(Val(s.startDate)), pois |-> << >>,
              totalDuration |-> Text("hours", 2, 0) ] >>) }

\* a run of a step: the state it started with, what it returned and the
\* channels once the return value is merged
StepRun(variant, s, r) ==
  [ variant |-> variant, before |-> s, result |-> r, after |-> ApplyUpdate(s, r.update) ]

\* plan_routes (route-planning.ts) runs on s
PlanRoutes(s, routeData) ==
  /\ planned = None /\ label = None
  /\ planned' = Some(StepRun("planDailyRoutes", s, planRoutes(s, routeData)))
  /\ UNCHANGED << orchestrator, label, trips, reply, routing, mcp >>

\* plan_routes (the generateObject variant) runs on s
PlanRoutesWithLLM(s, object) ==
  /\ planned = None /\ label = None
  /\ planned' = Some(StepRun("generateObject", s, planRoutesWithLLM(s, object)))
  /\ UNCHANGED << orchestrator, label, trips, reply, routing, mcp >>

\* search_accommodation runs on s, after discover_pois in the sequential graphs
SearchAccommodation(s, found) ==
  /\ planned = None /\ label = None
  /\ planned' = Some(StepRun("searchAccommodation", s, searchAccommodation(s, found)))
  /\ UNCHANGED << orchestrator, label, trips, reply, routing, mcp >>

FormatDuration(seconds) ==
  /\ planned = None /\ label = None
  /\ label' = Some([fn |-> "formatDuration", arg |-> seconds, text |-> formatDuration(seconds)])
  /\ UNCHANGED << orchestrator, planned, trips, reply, routing, mcp >>

FormatDistance(meters) ==
  /\ planned = None /\ label = None
  /\ label' = Some([fn |-> "formatDistance", arg |-> meters, text |-> formatDistance(meters)])
  /\ UNCHANGED << orchestrator, planned, trips, reply, routing, mcp >>

StepNext ==
  \/ \E s \in PlanningStates, routeData \in RouteDataAnswers : PlanRoutes(s, routeData)
  \/ \E s \in PlanningStates : \E object \in ItineraryAnswers(s) : PlanRoutesWithLLM(s, object)
  \/ \E s \in PlanningStates, found \in ListingAnswers : SearchAccommodation(s, found)
  \/ \E seconds \in 0..MaxSeconds : FormatDuration(seconds)
  \/ \E meters \in 0..MaxMeters : FormatDistance(meters)

StepSpec == Init /\ [][StepNext]_vars

(* ------------------------------ saved trips --------------------------- *)

Users == { "ana", "ben" }

\* requireAuth(): the signed-in user, None when there is none
Callers == { None } \cup { Some(u) : u \in Users }

TripIds == 1..MaxTrips

\* what the unique index of the trips table is built on besides the user:
\* destination, start date and end date
TripKeys == { "Paris 2027-05-01 2027-05-08", "Rome 2027-06-01 2027-06-03" }

\* a row of the trips table
Row(id, userId, key, isFavorite) ==
  [ id |-> id, user_id |-> userId, key |-> key, is_favorite |-> isFavorite ]

\* insert([tripData]): the row is refused when the user has a trip with the key
insertRefused(userId, key, rows) ==
  \E r \in rows : r.user_id = userId /\ r.key = key

\* saveTrip(userId, trip): the table after the insert of a row with a new id
saveTrip(userId, id, key, rows) == rows \cup { Row(id, userId, key, FALSE) }

\* select("*").eq("id", tripId).eq("user_id", userId)
getTripById(userId, tripId, rows) ==
  { r \in rows : r.id = tripId /\ r.user_id = userId }

\* select("*").eq("user_id", userId); the table holds less than one page
getUserTrips(userId, rows) == { r \in rows : r.user_id = userId }

\* update({ is_favorite }).eq("id", tripId).eq("user_id", userId)
updateTripFavorite(userId, tripId, isFavorite, rows) ==
  { IF r.id = tripId /\ r.user_id = userId
      THEN [r EXCEPT !.is_favorite = isFavorite] ELSE r : r \in rows }

\* delete() without the filter on user_id
deleteTrip_AnyOwner(userId, tripId, rows) ==
  { r \in rows : ~(r.id = tripId) }

\* delete().eq("id", tripId).eq("user_id", userId)
deleteTrip(userId, tripId, rows) ==
  { r \in rows : ~(r.id = tripId /\ r.user_id = userId) }

\* an answer: the operation, the caller, the trip id asked for, the code of
\* the answer and the rows handed out
Reply(op, caller, tripId, code, data) ==
  [ op |-> op, caller |-> caller, tripId |-> tripId, code |-> code, data |-> data ]

\* POST /api/save-trip; body: what request.json() and the field check find
SaveTripPost(caller, body, key) ==
  /\ IF ~IsSome(caller)
       THEN /\ reply' = Some(Reply("save", caller, None, "AUTH_ERROR", {}))
            /\ UNCHANGED trips
       ELSE IF body # "complete"
         THEN /\ reply' = Some(Reply("save", caller, None,
                     IF body = "no JSON" THEN "INVALID_REQUEST" ELSE "VALIDATION_ERROR", {}))
              /\ UNCHANGED trips
         ELSE IF insertRefused(Val(caller), key, trips)
           THEN /\ reply' = Some(Reply("save", caller, None, "DATABASE_ERROR", {}))
                /\ UNCHANGED trips
           ELSE \E id \in TripIds :
                  /\ \A r \in trips : r.id # id
                  /\ trips' = saveTrip(Val(caller), id, key, trips)
                  /\ reply' = Some(Reply("save", caller, Some(id), "OK",
                                         { Row(id, Val(caller), key, FALSE) }))
  /\ UNCHANGED << orchestrator, routing, mcp, planned, label >>

\* GET /api/trips/[tripId]
TripGet(caller, tripId) ==
  /\ reply' =
       IF ~IsSome(caller) THEN Some(Reply("get", caller, tripId, "AUTH_ERROR", {}))
       ELSE IF ~IsSome(tripId) THEN Some(Reply("get", caller, tripId, "VALIDATION_ERROR", {}))
       ELSE IF getTripById(Val(caller), Val(tripId), trips) = {}
         THEN Some(Reply("get", caller, tripId, "NOT_FOUND", {}))
         ELSE Some(Reply("get", caller, tripId, "OK",
                         getTripById(Val(caller), Val(tripId), trips)))
  /\ UNCHANGED << orchestrator, routing, mcp, planned, label, trips >>

\* DELETE /api/trips/[tripId]
TripDelete(caller, tripId) ==
  /\ IF ~IsSome(caller)
       THEN /\ reply' = Some(Reply("delete", caller, tripId, "AUTH_ERROR", {}))
            /\ UNCHANGED trips
       ELSE IF ~IsSome(tripId)
         THEN /\ reply' = Some(Reply("delete", caller, tripId, "VALIDATION_ERROR", {}))
              /\ UNCHANGED trips
         ELSE /\ trips' = deleteTrip(Val(caller), Val(tripId), trips)
              /\ reply' = Some(Reply("delete", caller, tripId, "OK", {}))
  /\ UNCHANGED << orchestrator, routing, mcp, planned, label >>

\* GET /api/saved-trips
SavedTripsGet(caller) ==
  /\ reply' =
       IF ~IsSome(caller) THEN Some(Reply("list", caller, None, "AUTH_ERROR", {}))
       ELSE Some(Reply("list", caller, None, "OK", getUserTrips(Val(caller), trips)))
  /\ UNCHANGED << orchestrator, routing, mcp, planned, label, trips >>

\* updateTripFavorite(userId, tripId, isFavorite): single() throws without a row
UpdateTripFavorite(userId, tripId, isFavorite) ==
  /\ trips' = updateTripFavorite(userId, tripId, isFavorite, trips)
  /\ reply' =
       IF getTripById(userId, tripId, trips) = {}
         THEN Some(Reply("favorite", Some(userId), Some(tripId), "Failed to update trip", {}))
         ELSE Some(Reply("favorite", Some(userId), Some(tripId), "OK",
                         getTripById(userId, tripId, trips')))
  /\ UNCHANGED << orchestrator, routing, mcp, planned, label >>

TripsNext ==
  \/ \E caller \in Callers, body \in { "no JSON", "fields missing", "complete" },
        key \in TripKeys : SaveTripPost(caller, body, key)
  \/ \E caller \in Callers, tripId \in { None } \cup { Some(t) : t \in TripIds } :
       TripGet(caller, tripId)
  \/ \E caller \in Callers, tripId \in { None } \cup { Some(t) : t \in TripIds } :
       TripDelete(caller, tripId)
  \/ \E caller \in Callers : SavedTripsGet(caller)
  \/ \E userId \in Users, tripId \in TripIds, isFavorite \in BOOLEAN :
       UpdateTripFavorite(userId, tripId, isFavorite)

TripsSpec == Init /\ [][TripsNext]_vars

(* ----------------------- planDailyRoutes run on its own --------------- *)

\* planDailyRoutes(state.pointsOfInterest, state.startDate, state.endDate) is
\* called and runs to its first await
PlanDailyRoutes(variant, s, apiKey) ==
  /\ routing.status = "idle"
  /\ Len(s.pointsOfInterest) > 0
  /\ routing' = planDailyRoutesCalled(variant, s.pointsOfInterest, Val(s.startDate),
                                      Val(s.endDate), apiKey)
  /\ UNCHANGED << orchestrator, planned, label, trips, reply, mcp >>

\* getRoute settles and planDailyRoutes runs to its next await or its end
GetRouteSettles(answer) ==
  /\ routing.status = "awaitRoute"
  /\ routing' = legSettled(routing, answer)
  /\ UNCHANGED << orchestrator, planned, label, trips, reply, mcp >>

\* plan_routes goes on with what planDailyRoutes returned or threw
PlanRoutesResumes(s) ==
  /\ routing.status \in { "returned", "threw" }
  /\ planned = None
  /\ s.pointsOfInterest = routing.pois
  /\ Val(s.startDate) = routing.startDate
  /\ s.daysCount = routing.numDays
  /\ planned' = Some(StepRun("planDailyRoutes", s, planRoutes(s, routing.result)))
  /\ UNCHANGED << orchestrator, label, trips, reply, routing, mcp >>

RouteNext ==
  \/ \E variant \in { "mcp", "rest" }, s \in PlanningStates, apiKey \in BOOLEAN :
       PlanDailyRoutes(variant, s, apiKey)
  \/ \E answer \in GetRouteAnswers : GetRouteSettles(answer)
  \/ \E s \in PlanningStates : PlanRoutesResumes(s)

RouteSpec == Init /\ [][RouteNext]_vars

(* ------------------------ the MCP clients in use ---------------------- *)

\* a caller calls initializeAirbnbClient or initializeGoogleMapsClient
InitializeClient(module, caller, constructed) ==
  /\ mcp.module \in { "", module }
  /\ mcp.callers[caller].status # "awaiting"
  /\ \/ IsSome(mcp.client)
     \/ IsSome(pendingInitialization(mcp))
     \/ Len(mcp.promises) < MaxAttempts
  /\ mcp' = initializeClient([mcp EXCEPT !.module = module], caller, constructed)
  /\ UNCHANGED << orchestrator, planned, label, trips, reply, routing >>

ConnectSettles(p, connected) ==
  /\ mcp.promises[p].status = "pending"
  /\ mcp' = connectSettled(mcp, p, connected)
  /\ UNCHANGED << orchestrator, planned, label, trips, reply, routing >>

\* closeAirbnbClient or closeGoogleMapsClient
CloseClient(module) ==
  /\ mcp.module \in { "", module }
  /\ mcp' = closeClient([mcp EXCEPT !.module = module])
  /\ UNCHANGED << orchestrator, planned, label, trips, reply, routing >>

ClientNext ==
  \/ \E module \in ClientModules, caller \in ClientCallers, constructed \in BOOLEAN :
       InitializeClient(module, caller, constructed)
  \/ \E p \in 1..Len(mcp.promises), connected \in BOOLEAN : ConnectSettles(p, connected)
  \/ \E module \in ClientModules : CloseClient(module)

ClientSpec == Init /\ [][ClientNext]_vars

(* ------------------------------ properties ---------------------------- *)

Invalid(in) == Len(validateInputErrors(initialState(in))) > 0

\* the steps after validation were started
Accepted == phase \in { "parallel", "transportation", "fulfilled", "done" }

Settled == phase \in { "fulfilled", "done" }

Contains(seq, m) == \E i \in 1..Len(seq) : seq[i] = m

IsPrefix(a, b) == Len(a) <= Len(b) /\ \A i \in 1..Len(a) : a[i] = b[i]

\* C1: when the input violates a validation rule, no step after validation
\* ever starts and no collaborator is called.
C1_InvalidInputStartsNoStep ==
  (phase # "idle" /\ Invalid(input)) =>
    /\ \A n \in Nodes : task[n] = "idle"
    /\ \A c \in Collaborators : calls[c] = 0

\* validation has thrown and nothing was called
C1_Witness ==
  phase = "rejected" /\ Invalid(input) /\ \A c \in Collaborators : calls[c] = 0

\* C2: once validation has failed, the promise of executeTripPlanner is
\* rejected with the ValidationError, with and without a timeout.
C2_InvalidInputRejectsWithValidationError ==
  (phase = "rejected" /\ Invalid(input)) =>
    /\ outcome.status = "rejected"
    /\ outcome.error = ValidationError(validateInputErrors(initialState(input)))

\* C3: when the timer fires before graph.invoke settles, the promise is
\* rejected with a TimeoutError whose timeout field is the timeout passed.
C3_TimeoutRejectsWithTimeoutError ==
  (timer = "fired" /\ phase \in { "validate_input", "parallel", "transportation" }) =>
    /\ outcome.status = "rejected"
    /\ outcome.error.name = "TimeoutError"
    /\ outcome.error.timeout = timeout

\* C4: a call without a timeout argument eventually settles, whatever the
\* collaborators do.
C4_RunWithoutTimeoutSettles ==
  (phase # "idle" /\ ~IsSome(timeout)) ~> (outcome.status # "pending")

\* C5: the promise settles once; a state is never delivered after the timer
\* fired, and the timer never fires after a state was delivered.
C5_SettlesOnce ==
  [][ /\ (outcome.status # "pending" => outcome' = outcome)
      /\ (timer = "fired" => outcome'.status # "fulfilled")
      /\ (outcome.status = "fulfilled" => timer' # "fired")
      /\ (outcome'.status = "fulfilled" /\ usesTimeout(timeout') => timer' = "cleared") ]_vars

\* the graph result arrived after the timeout rejection and was dropped
C5_Witness ==
  phase = "done" /\ timer = "fired" /\ outcome.status = "rejected"

DestinationGeocodingFailed == answers.destination = Some(None)

PoisFound ==
  /\ IsSome(answers.pois) /\ IsSome(Val(answers.pois))
  /\ Len(Val(Val(answers.pois))) > 0

ListingsFound ==
  /\ IsSome(answers.listings) /\ IsSome(Val(answers.listings))
  /\ Len(Val(Val(answers.listings))) > 0

\* C6: when only the destination geocoding fails, the run returns a state
\* with the collaborators' points of interest and listings and exactly the
\* geocoding entry in errors, in whatever order the writes are applied.
C6_GeocodingFailureIsolated ==
  (phase = "done" /\ timer # "fired" /\ DestinationGeocodingFailed
     /\ PoisFound /\ ListingsFound) =>
    /\ outcome.status = "fulfilled"
    /\ Val(outcome.value).pointsOfInterest = Val(Val(answers.pois))
    /\ Val(outcome.value).airbnbRecommendations =
         SubSeq(Val(Val(answers.listings)), 1,
                Min(TopListings, Len(Val(Val(answers.listings)))))
    /\ Val(outcome.value).errors = << GeocodeDestinationFailed >>

\* the messages the failures answered so far have to leave in errors
FailureMessages ==
  (IF answers.destination = Some(None) THEN { GeocodeDestinationFailed } ELSE {})
  \cup (IF answers.origin = Some(None) THEN { GeocodeOriginFailed } ELSE {})
  \cup (IF IsSome(answers.pois) /\ ~PoisFound THEN { PoiDiscoveryFailed } ELSE {})
  \cup (IF IsSome(answers.listings) /\ ~ListingsFound THEN { AccommodationFailed } ELSE {})
  \cup (IF answers.mode = Some(None) THEN { TransportationModeFailed } ELSE {})

BothGeocoded ==
  /\ IsSome(answers.destination) /\ IsSome(Val(answers.destination))
  /\ IsSome(answers.origin) /\ IsSome(Val(answers.origin))

\* C8: the transportation-mode collaborator is called only with both
\* coordinates in the state; unless both geocodings succeeded the step is not
\* launched, the collaborator is not called and transportationMode stays absent.
C8_TransportationModeOnlyWithBothCoordinates ==
  /\ calls["generateTransportationMode"] > 0 =>
       IsSome(state.originCoordinates) /\ IsSome(state.destinationCoordinates)
  /\ ~BothGeocoded =>
       /\ task["determine_transportation_mode"] = "idle"
       /\ calls["generateTransportationMode"] = 0
       /\ ~IsSome(state.transportationMode)
       /\ outcome.status = "fulfilled" => ~IsSome(Val(outcome.value).transportationMode)

\* the origin geocoding failed and the run ended without the step
C8_Witness ==
  /\ phase = "done" /\ answers.origin = Some(None)
  /\ IsSome(state.destinationCoordinates)
  /\ calls["generateTransportationMode"] = 0

\* C9: errors only grows: in every step of a run the errors list before the
\* step is a prefix of the errors list after it.
C9_ErrorsOnlyGrow == [][ IsPrefix(state.errors, state'.errors) ]_vars

\* two steps have appended an entry
C9_Witness == Settled /\ Len(state.errors) >= 2

\* the least integer n with n days >= ticks
CeilingOfDays(ticks) ==
  CHOOSE n \in (0 - 1)..(MaxTripDays + 1) :
    n * TicksPerDay >= ticks /\ (n - 1) * TicksPerDay < ticks

\* C10: an accepted input has daysCount = ceil((endDate - startDate) / 1 day)
\* in 1..365 and startDate <= endDate; an input whose derived daysCount is 0
\* or more than 365 is rejected.
C10_DaysCount ==
  /\ Accepted =>
       /\ state.daysCount = CeilingOfDays(Val(input.endDate) - Val(input.startDate))
       /\ state.daysCount \in 1..MaxTripDays
       /\ Val(input.startDate) <= Val(input.endDate)
       /\ outcome.status = "fulfilled" => Val(outcome.value).daysCount = state.daysCount
  /\ ( /\ phase \notin { "idle", "validate_input" }
       /\ IsSome(input.startDate) /\ IsSome(input.endDate)
       /\ CeilingOfDays(Val(input.endDate) - Val(input.startDate)) \notin 1..MaxTripDays )
       => phase = "rejected"

\* a trip that is not a whole number of days long was accepted and returned
C10_Witness ==
  /\ outcome.status = "fulfilled"
  /\ (Val(input.endDate) - Val(input.startDate)) % TicksPerDay # 0
  /\ Val(outcome.value).daysCount > 1

\* the entry of each rule the input violates, every rule judged by itself
ViolatedRules(in) ==
  (IF in.destination.len = 0 \/ in.destination.blank
     THEN << "Destination is required" >>
     ELSE IF in.destination.len > MaxDestinationLength
       THEN << "Destination must be 255 characters or less" >> ELSE << >>)
  \o (IF in.startDate = None THEN << "Start date is required" >> ELSE << >>)
  \o (IF in.endDate = None THEN << "End date is required" >> ELSE << >>)
  \o (IF in.startDate # None /\ in.endDate # None /\ Val(in.startDate) > Val(in.endDate)
        THEN << "Start date must be before end date" >> ELSE << >>)
  \o (IF in.startDate # None /\ Val(in.startDate) < Today
        THEN << "Start date must be in the future" >> ELSE << >>)
  \o (IF in.startDate # None /\ Val(in.startDate) > MaxDate
        THEN << "Start date must be within 2 years" >> ELSE << >>)
  \o (IF in.budgetUsd <= 0
        THEN << "Budget must be greater than 0" >>
        ELSE IF in.budgetUsd > MaxBudgetUsd
          THEN << "Budget must be less than $1,000,000" >> ELSE << >>)
  \o (IF in.startDate # None /\ in.endDate # None
        THEN (IF CeilingOfDays(Val(in.endDate) - Val(in.startDate)) < 1
                THEN << "Trip must be at least 1 day" >> ELSE << >>)
          \o (IF CeilingOfDays(Val(in.endDate) - Val(in.startDate)) > MaxTripDays
                THEN << "Trip must be less than 365 days" >> ELSE << >>)
        ELSE << >>)

\* C11: the message of the ValidationError holds one entry for each rule the
\* input violates (destination, date presence, date order, start date not in
\* the past, start date within 2 years, budget range, day-count range),
\* joined by "; "; no entry is missing because another rule failed.
C11_EveryViolationReported ==
  (phase = "rejected" /\ ~usesTimeout(timeout)) =>
    /\ outcome.error.name = "ValidationError"
    /\ outcome.error.message =
         << "Input validation failed: " >> \o Join(ViolatedRules(input), "; ")

\* C12: the airbnb_search call carries minPrice = 0 and maxPrice =
\* floor(budgetUsd / daysCount), 100 for a budget of 1000 over 10 days, and
\* daysCount is not 0 when the call is made.
C12_PriceCeiling ==
  IsSome(request) =>
    /\ state.daysCount >= 1
    /\ Val(request).minPrice = 0
    /\ Val(request).maxPrice * state.daysCount <= input.budgetUsd
    /\ input.budgetUsd < (Val(request).maxPrice + 1) * state.daysCount
    /\ (input.budgetUsd = 1000 /\ state.daysCount = 10) => Val(request).maxPrice = 100

\* the call was made for a budget of 1000 over 10 days
C12_Witness ==
  /\ IsSome(request) /\ calls["searchAirbnb"] = 1
  /\ input.budgetUsd = 1000 /\ state.daysCount = 10
  /\ Val(request).maxPrice = 100

\* the lodging collaborator has answered with a list
ListingsAnswered == IsSome(answers.listings) /\ IsSome(Val(answers.listings))

AllCollaboratorsSucceeded ==
  /\ IsSome(answers.destination) /\ IsSome(Val(answers.destination))
  /\ answers.origin # Some(None)
  /\ PoisFound
  /\ ListingsFound
  /\ answers.mode # Some(None)

\* C14: for a valid input with daysCount = d and points of interest found,
\* when all collaborators succeed the returned dailyItinerary has exactly d
\* entries, entry i has day i and date startDate + (i - 1) days, and errors
\* is empty.
C14_OneEntryPerDay ==
  (outcome.status = "fulfilled" /\ AllCollaboratorsSucceeded) =>
    LET final == Val(outcome.value) IN
      /\ Len(final.dailyItinerary) = final.daysCount
      /\ \A i \in 1..Len(final.dailyItinerary) :
           /\ final.dailyItinerary[i].day = i
           /\ final.dailyItinerary[i].date = DateOf(Val(input.startDate)) + (i - 1)
      /\ final.errors = << >>

\* C17: POST /api/plan-trip answers 200 for a returned state with empty
\* errors, 400 for a ValidationError, 504 with code TIMEOUT_ERROR and the
\* timeout value for a run that exceeded the timeout, and 500 for any other
\* failure.
C17_PlanTripStatusCodes ==
  /\ (outcome.status = "fulfilled" /\ Val(outcome.value).errors = << >>) =>
       Val(planTripResponse(outcome)).status = 200
  /\ (outcome.status = "rejected" /\ timer # "fired") =>
       Val(planTripResponse(outcome)).status =
         (IF Invalid(input) THEN 400 ELSE 500)
  /\ (outcome.status = "rejected" /\ timer = "fired") =>
       planTripResponse(outcome) = Some(Response(504, "TIMEOUT_ERROR", timeout))

\* the fields a step is there to produce
OwnFields(n) ==
  CASE n = "geocode_locations" -> { "destinationCoordinates", "originCoordinates" }
    [] n = "discover_pois" -> { "pointsOfInterest" }
    [] n = "search_accommodation" -> { "airbnbRecommendations" }
    [] n = "determine_transportation_mode" -> { "transportationMode" }
    [] n = "plan_routes" -> { "dailyItinerary", "routeInformation" }

\* the returned updates of the three parallel steps applied in the order a, b, c
MergedInOrder(a, b, c) ==
  ApplyUpdate(ApplyUpdate(ApplyUpdate(state, writes[a]), writes[b]), writes[c])

\* C19: each of geocoding, POI discovery and accommodation search returns an
\* update of its own output fields and errors only, and the merge of the
\* three updates gives the same fields, errors aside, in every order.
C19_DisjointWrites ==
  /\ \A n \in ParallelNodes :
       task[n] \in { "returned", "applied" } => writes[n].keys \subseteq OwnFields(n) \cup { "errors" }
  /\ (phase = "parallel" /\ \A n \in ParallelNodes : task[n] = "returned") =>
       \A a, b, c \in ParallelNodes :
         { a, b, c } = ParallelNodes =>
           \A f \in Fields \ { "errors" } :
             MergedInOrder(a, b, c)[f] =
               MergedInOrder("geocode_locations", "discover_pois", "search_accommodation")[f]

\* C20: in a run that passed validation the plan_routes step is executed
\* before the graph ends, and it is started only once discover_pois has
\* settled.
C20_RoutePlanningAfterDiscovery ==
  /\ Settled => task["plan_routes"] \in { "returned", "applied" }
  /\ task["plan_routes"] # "idle" => task["discover_pois"] \in { "returned", "applied" }

\* C15: on a state without points of interest the plan_routes step does not
\* raise, leaves dailyItinerary and routeInformation.routes empty and adds no
\* entry of its own to errors.
C15_EmptyPoisPlanNothing ==
  (IsSome(planned) /\ Len(Val(planned).before.pointsOfInterest) = 0) =>
    /\ ~Val(planned).result.throws
    /\ Val(planned).after.dailyItinerary = << >>
    /\ Val(planned).after.routeInformation.routes = << >>
    /\ ~Contains(Val(planned).after.errors, RoutePlanningFailed)

\* the whole hours in a number of seconds
HoursIn(seconds) ==
  CHOOSE h \in 0..(seconds \div 3600 + 1) : 3600 * h <= seconds /\ seconds < 3600 * (h + 1)

\* the number of minutes nearest to a number of seconds, the upper one at a half
RoundedMinutes(seconds) ==
  CHOOSE m \in 0..(seconds \div 60 + 1) : 60 * m - 30 <= seconds /\ seconds < 60 * m + 30

\* the stated rule for durations
DurationRule(seconds, text) ==
  IF seconds < 60
    THEN text = Text("seconds", seconds, 0)
    ELSE IF seconds < 3600
      THEN text = Text("minutes", RoundedMinutes(seconds), 0)
      ELSE IF RoundedMinutes(seconds - 3600 * HoursIn(seconds)) = 0
        THEN /\ text.form = (IF HoursIn(seconds) = 1 THEN "hour" ELSE "hours")
             /\ text.a = HoursIn(seconds)
        ELSE text = Text("h m", HoursIn(seconds),
                         RoundedMinutes(seconds - 3600 * HoursIn(seconds)))

\* the stated rule for distances: X.X is a tenth of a kilometre nearest to the metres
DistanceRule(meters, text) ==
  IF meters < 1000
    THEN text = Text("m", meters, 0)
    ELSE /\ text.form = "km"
         /\ text.a >= 1 /\ text.b \in 0..9
         /\ (text.a * 10 + text.b) * 100 - meters \in (0 - 50)..50

\* C16: formatDuration gives "N seconds" below 60, "N minutes" (rounded) below
\* 3600, "H hour(s)" when the minutes part is zero and "Hh Mm" otherwise;
\* formatDistance gives "N m" below 1000 and "X.X km" otherwise; 30, 150,
\* 5400, 3600 seconds and 500, 1500 metres give the labels of the examples.
C16_LabelsFollowTheRule ==
  IsSome(label) =>
    LET arg == Val(label).arg
        text == Val(label).text
    IN /\ Val(label).fn = "formatDuration" =>
            /\ DurationRule(arg, text)
            /\ arg = 30 => text = Text("seconds", 30, 0)
            /\ arg = 150 => text = Text("minutes", 3, 0)
            /\ arg = 5400 => text = Text("h m", 1, 30)
            /\ arg = 3600 => text = Text("hour", 1, 0)
       /\ Val(label).fn = "formatDistance" =>
            /\ DistanceRule(arg, text)
            /\ arg = 500 => text = Text("m", 500, 0)
            /\ arg = 1500 => text = Text("km", 1, 5)

\* formatDuration(5400) has answered "1h 30m"
C16_Witness ==
  /\ IsSome(label) /\ Val(label).fn = "formatDuration"
  /\ Val(label).arg = 5400 /\ Val(label).text = Text("h m", 1, 30)

\* C18: whatever was saved, read and deleted before, a get, list or favorite
\* by user u hands out rows of u only, a delete by u removes nothing but the
\* trip asked for, and only when u owns it, and no operation of u changes a
\* row of another user.
C18_OwnTripsOnly ==
  [][ /\ \A r \in Val(reply').data : Some(r.user_id) = Val(reply').caller
      /\ \A r \in trips :
           Some(r.user_id) # Val(reply').caller => r \in trips'
      /\ \A r \in trips :
           (\A q \in trips' : q.id # r.id) =>
              /\ Val(reply').op = "delete"
              /\ Val(reply').tripId = Some(r.id)
              /\ Val(reply').caller = Some(r.user_id) ]_vars

\* a user asked to delete another user's trip and the trip is still stored
C18_Witness ==
  /\ IsSome(reply) /\ Val(reply).op = "delete" /\ Val(reply).code = "OK"
  /\ \E r \in trips : Val(reply).tripId = Some(r.id) /\ Val(reply).caller # Some(r.user_id)

\* C21: once the geocoding step has returned, the geocoding collaborator
\* was called exactly once for the destination, and exactly once for the
\* origin when a non-blank origin was supplied and not at all otherwise,
\* whether or not the destination call failed.
C21_GeocodeOncePerField ==
  task["geocode_locations"] \in { "returned", "applied" } =>
    /\ calls["geocodeDestination"] = 1
    /\ calls["geocodeOrigin"] = (IF originSupplied(initialState(input)) THEN 1 ELSE 0)

\* the legs planDailyRoutes recorded for a day
legsOfDay(r, day) ==
  IF \E n \in 1..Len(r.routes) : r.routes[n].day = day
    THEN (CHOOSE route \in { r.routes[n] : n \in 1..Len(r.routes) } : route.day = day).legs
    ELSE << >>

\* C22: planDailyRoutes never reads a point of interest beyond the end of a
\* day's list; every day it went through with k >= 1 points of interest has
\* exactly k - 1 legs, leg j from the j-th to the (j+1)-th point of interest;
\* a day with one point of interest makes planDailyRoutes fail no more than
\* any other.
C22_LegsOfADay ==
  /\ ~routing.beyond
  /\ routing.status = "threw" => routing.variant = "rest" /\ routing.i = 0 /\ routing.day = 1
  /\ \A n \in 1..Len(routing.dailyItinerary) :
       LET e == routing.dailyItinerary[n]
           legs == legsOfDay(routing, e.day)
       IN /\ Len(legs) = Len(e.pois) - 1
          /\ \A j \in 1..Len(legs) :
               /\ legs[j].startLocation = e.pois[j].poi
               /\ legs[j].endLocation = e.pois[j + 1].poi

\* the same for the REST variant alone
C22_RestVariant == routing.variant = "rest" => C22_LegsOfADay

RECURSIVE legsUpTo(_, _)
\* the legs the days 1..day call for: one less than the points of interest of
\* each day that has any
legsUpTo(r, day) ==
  IF day = 0 THEN 0
  ELSE legsUpTo(r, day - 1)
         + (IF Len(dayPoisOf(r, day)) > 0 THEN Len(dayPoisOf(r, day)) - 1 ELSE 0)

RECURSIVE legsIn(_)
legsIn(routes) == IF routes = << >> THEN 0 ELSE Len(Head(routes).legs) + legsIn(Tail(routes))

\* C23: when getRoute failed for some legs, planDailyRoutes still returns,
\* with every leg of every day recorded, and the plan_routes step that goes
\* on with its answer returns it as routeInformation and adds no entry to
\* errors.
C23_LegFailuresAreAbsorbed ==
  (routing.failures > 0 /\ routing.status \in { "returned", "threw" }) =>
    /\ routing.status = "returned"
    /\ legsIn(Val(routing.result).routes) = legsUpTo(routing, routing.numDays)
    /\ IsSome(planned) =>
         /\ ~Val(planned).result.throws
         /\ Val(planned).after.routeInformation = Val(routing.result)
         /\ Val(planned).after.errors = Val(planned).before.errors

\* the same for the REST variant alone
C23_RestVariant == routing.variant = "rest" => C23_LegFailuresAreAbsorbed

C23_RestWitness ==
  /\ routing.variant = "rest" /\ routing.failures > 1 /\ routing.status = "returned"
  /\ IsSome(planned)

\* C24: a leg that falls back to the straight-line estimate of d metres adds
\* d (metres) to the total distance and 60 * d / 1000 (seconds) to the total
\* duration.
C24_FallbackAddsMetresAndSeconds ==
  [][ routing'.failures = routing.failures + 1 =>
        LET d == routing'.estimates - routing.estimates
        IN /\ routing'.totalDistance = routing.totalDistance + d
           /\ 1000 * (routing'.totalDuration - routing.totalDuration) = 60 * d ]_vars

\* what the fallback adds in the source: 1000 * d and 60 * d
C24_FallbackAsCoded ==
  [][ routing'.failures = routing.failures + 1 =>
        LET d == routing'.estimates - routing.estimates
        IN /\ d > 0
           /\ routing'.totalDistance = routing.totalDistance + 1000 * d
           /\ routing'.totalDuration = routing.totalDuration + 60 * d ]_vars

\* the j-th point of interest of every day (from 0) is scheduled from
\* (9 + 2j):00 to (11 + 2j):00, and the first of every day has no travel time
WindowsFollowTheDay(itinerary) ==
  \A n \in 1..Len(itinerary) :
    LET pois == itinerary[n].pois
    IN /\ \A j \in 1..Len(pois) :
            pois[j].timeWindow = << 9 + 2 * (j - 1), 11 + 2 * (j - 1) >>
       /\ Len(pois) > 0 => pois[1].travelTimeFromPrevious = 0

\* C25: in the itinerary the plan_routes step builds itself, the j-th point
\* of interest of a day (counted from 0 within the day) has the window
\* (9+2j):00-(11+2j):00 and the first point of interest of every day has
\* travelTimeFromPrevious = 0.
C25_WindowsWithinTheDay ==
  (IsSome(planned) /\ Val(planned).variant = "planDailyRoutes") =>
    WindowsFollowTheDay(Val(planned).after.dailyItinerary)

\* the itinerary planDailyRoutes builds and drops follows the rule
C25_LocalItinerary == WindowsFollowTheDay(routing.dailyItinerary)

C25_LocalWitness ==
  /\ routing.status = "returned"
  /\ Len(routing.dailyItinerary) > 1
  /\ Len(routing.dailyItinerary[2].pois) > 1

\* the initializations in flight
inFlight(m) == { p \in 1..Len(m.promises) : m.promises[p].status = "pending" }

\* at most one initialization is in flight, the callers that wait all wait
\* for it, and the callers that a promise answered hold the client of its
\* initialization
OneInitialization(m) ==
  /\ Cardinality(inFlight(m)) <= 1
  /\ \A c \in ClientCallers :
       /\ m.callers[c].status = "awaiting" =>
            /\ m.initPromise = Some(m.callers[c].promise)
            /\ m.callers[c].promise \in inFlight(m)
       /\ (m.callers[c].status = "received" /\ m.callers[c].promise # 0) =>
            m.callers[c].client = m.promises[m.callers[c].promise].client
  /\ \A c, d \in ClientCallers :
       (/\ m.callers[c].status = "received" /\ m.callers[d].status = "received"
        /\ m.callers[c].promise = m.callers[d].promise /\ m.callers[c].promise # 0) =>
         m.callers[c].client = m.callers[d].client

\* C26: in every interleaving of the callers of an MCP client module at most
\* one initialization is in flight; the callers that arrive while it is in
\* flight await that same initialization and receive the same client; and
\* while the module holds a client no further client is created.
C26_SingleInitialization ==
  [][ /\ OneInitialization(mcp')
      /\ IsSome(mcp.client) => mcp'.created = mcp.created
      /\ (IsSome(mcp.client) /\ IsSome(mcp'.client)) => mcp'.client = mcp.client ]_vars

\* two callers joined one initialization and hold its client
C26_Witness ==
  /\ IsSome(mcp.client)
  /\ mcp.callers[1].status = "received" /\ mcp.callers[2].status = "received"
  /\ mcp.callers[1].promise # 0 /\ mcp.callers[1].promise = mcp.callers[2].promise
  /\ mcp.created = 1

\* C27: a failed initialization is not kept: initPromise never holds a
\* rejected promise, so the call after a failure starts a new attempt,
\* whether a constructor threw before the first await or connect failed.
C27_FailureNotCached ==
  IsSome(mcp.initPromise) => mcp.promises[Val(mcp.initPromise)].status # "rejected"

\* the failures of connect alone are never kept
C27_ConnectFailureNotCached ==
  (/\ IsSome(mcp.initPromise)
   /\ mcp.promises[Val(mcp.initPromise)].status = "rejected") =>
     mcp.promises[Val(mcp.initPromise)].client = 0

\* C29: once closeAirbnbClient or closeGoogleMapsClient has completed, no
\* call is handed the client it dropped.
C29_ClosedClientNotHandedOut ==
  [][ \A c \in ClientCallers :
        (mcp'.callers[c] # mcp.callers[c] /\ mcp'.callers[c].status = "received") =>
          mcp'.callers[c].client \notin mcp'.closed ]_vars

\* the same for google-maps.ts alone
C29_GoogleMaps ==
  [][ mcp'.module = "googleMaps" =>
        \A c \in ClientCallers :
          (mcp'.callers[c] # mcp.callers[c] /\ mcp'.callers[c].status = "received") =>
            mcp'.callers[c].client \notin mcp'.closed ]_vars

\* how often e occurs in errors
Occurrences(errors, e) == Cardinality({ i \in 1..Len(errors) : errors[i] = e })

\* the merge of what a step returned keeps every entry recorded before the
\* step as often as it was there, and adds at most one entry
EarlierEntriesKept(before, after) ==
  /\ Len(after) <= Len(before) + 1
  /\ \A i \in 1..Len(before) : Occurrences(after, before[i]) = Occurrences(before, before[i])

\* C28: a step that runs after an error was recorded does not make the
\* earlier entry appear more than once: after the merge of its return value
\* errors holds the earlier entries once each, and one more entry when the
\* step itself failed.
C28_EarlierEntriesOnce ==
  IsSome(planned) => EarlierEntriesKept(Val(planned).before.errors, Val(planned).after.errors)

\* the step that returns only the keys it sets keeps the earlier entries
C28_PartialReturn ==
  (IsSome(planned) /\ Val(planned).variant = "generateObject") =>
    EarlierEntriesKept(Val(planned).before.errors, Val(planned).after.errors)

\* in the parallel graph no entry of errors occurs twice
C28_ParallelGraph ==
  \A i \in 1..Len(state.errors) : Occurrences(state.errors, state.errors[i]) = 1

\* C30: for seconds >= 3600 the hours of the label are floor(seconds / 3600)
\* and its minutes lie in 0..59, and for 60 <= seconds < 3600 the label is
\* never "60 minutes".
C30_MinutesBelowSixty ==
  (IsSome(label) /\ Val(label).fn = "formatDuration") =>
    LET seconds == Val(label).arg
        text == Val(label).text
    IN /\ seconds >= 3600 =>
            /\ text.form \in { "hour", "hours", "h m" }
            /\ text.a = seconds \div 3600
            /\ text.b \in 0..59
       /\ (seconds >= 60 /\ seconds < 3600) => text # Text("minutes", 60, 0)

\* the hours part alone
C30_HoursPart ==
  (IsSome(label) /\ Val(label).fn = "formatDuration" /\ Val(label).arg >= 3600) =>
    Val(label).text.a = Val(label).arg \div 3600

====
